---- MODULE Spec2Model ----
(***************************************************************************)
(* Payment transaction / order reconciliation of mercado-copado-back.     *)
(*                                                                         *)
(* The relational store is modelled by the tables txs (PaymentTransaction, *)
(* keyed by the unique clientTransactionId), orders (Order, keyed by id)   *)
(* and cart (CartItem, reduced to the cart total of each user; 0 = no      *)
(* lines).  mail counts the e-mails handed to the e-mail service.  Every    *)
(* service method is a function from a store to a store and an outcome;    *)
(* an action applies one method to the current store.                      *)
(***************************************************************************)
EXTENDS Integers, FiniteSets, Sequences, TLC

(* ------------------------------ bounds --------------------------------- *)
MaxSteps == 3
MaxCart == 2
MaxSetup == 1
MaxClock == 4

(* ------------------------------ domains -------------------------------- *)
NULL == "null"
Undefined == "undefined"
NoOrder == 0

Users == {"u1", "u2"}
Workers == {"w1", "w2"}
CtidOrder == <<"c1", "c2">>
Ctids == {CtidOrder[i] : i \in 1..Len(CtidOrder)}
Addresses == {"a1"}
DataVals == {"d1", "d2"}

PaymentStatus == {"pending", "completed", "failed"}
PaymentProvider == {"PAYPHONE", "MERCADOPAGO", "CASH_DEPOSIT", "CRYPTO"}
OrderStatus == {"created", "pending", "processing", "paid_pending_review",
                "shipping", "delivered", "completed", "cancelled"}
\* what MercadoPagoProvider.getPayment can report; "charged_back" stands for
\* a status outside the ones the code names, NULL for an absent status
GatewayStatus == {"approved", "pending", "in_process", "rejected",
                  "cancelled", "refunded", "charged_back", NULL}
GatewayThrows == "throws"

VARIABLES txs, orders, cart, mail, nextTx, steps, last, wk,
          cachedRate, clock, quote

\* the currency helper's variables
fx == <<cachedRate, clock, quote>>

vars == <<txs, orders, cart, mail, nextTx, steps, last, wk, fx>>

(* ------------------------------ the store ------------------------------ *)
DB == [txs |-> txs, orders |-> orders, cart |-> cart, mail |-> mail,
       nextTx |-> nextTx]

\* what a call leaves and returns: the store, the outcome (ok, a status word
\* or the exception thrown), the order id, the updated flag and the
\* initPoint of the result where it has them
Ret(db, res) ==
    [db |-> db, res |-> res, val |-> NoOrder, updated |-> FALSE,
     initPoint |-> Undefined]
RetVal(db, res, val) == [Ret(db, res) EXCEPT !.val = val]
RetUpd(db, res, upd) == [Ret(db, res) EXCEPT !.updated = upd]

Failed(r) == r.res \in {"NotFound", "BadRequest", "Error"}

\* the address book: a1 belongs to u1, u2 has no address
OwnsAddress(u, a) == a = "a1" /\ u = "u1"

NextOrderId(db) == Cardinality(DOMAIN db.orders) + 1

TxOfOrder(db, o) == {c \in DOMAIN db.txs : db.txs[c].orderId = o}

(* ---------------------- order notification service --------------------- *)
HasEmailConfig(status) ==
    status \in {"processing", "paid_pending_review", "shipping", "delivered",
                "cancelled"}

\* emailService.sendEmail inside try/catch: when the e-mail service is down
\* the error is logged and the caller sees a normal return
SendOrderStatusEmail(db, newStatus, previousStatus) ==
    IF previousStatus = newStatus THEN Ret(db, "ok")
    ELSE IF ~HasEmailConfig(newStatus) THEN Ret(db, "ok")
    ELSE IF db.mail.up THEN Ret([db EXCEPT !.mail.status = @ + 1], "ok")
    ELSE Ret(db, "ok")

\* a send whose error reaches the caller
SendOrderConfirmationEmailUncaught(db) ==
    IF db.mail.up THEN Ret([db EXCEPT !.mail.confirm = @ + 1], "ok")
    ELSE Ret(db, "Error")

SendOrderConfirmationEmail(db) ==
    IF db.mail.up THEN Ret([db EXCEPT !.mail.confirm = @ + 1], "ok")
    ELSE Ret(db, "ok")

(* ----------------------------- orders service -------------------------- *)
UpdateStatus(db, id, status) ==
    IF id \notin DOMAIN db.orders THEN Ret(db, "NotFound")
    ELSE LET previousStatus == db.orders[id].status
             db1 == [db EXCEPT !.orders[id].status = status]
         IN  IF previousStatus # status
             THEN SendOrderStatusEmail(db1, status, previousStatus)
             ELSE Ret(db1, "ok")

CreateFromPaymentTransaction(db, userId, addressId, initialStatus, origin) ==
    IF ~OwnsAddress(userId, addressId) THEN Ret(db, "NotFound")
    ELSE IF db.cart[userId] = 0 THEN Ret(db, "BadRequest")
    ELSE LET id == NextOrderId(db)
             row == [userId |-> userId, addressId |-> addressId,
                     total |-> db.cart[userId], status |-> initialStatus,
                     depositImageUrl |-> NULL, origin |-> origin]
             db1 == [db EXCEPT !.orders = id :> row @@ @,
                               !.cart[userId] = 0]
         IN  RetVal(db1, "ok", id)

(* -------------------------- payment order service ---------------------- *)
\* a mapping that lets MERCADOPAGO fall through to the default branch
DetermineOrderStatusDefaulting(paymentProvider) ==
    IF paymentProvider = "PAYPHONE" THEN "processing" ELSE "paid_pending_review"

DetermineOrderStatus(paymentProvider) ==
    CASE paymentProvider = "PAYPHONE" -> "processing"
      [] paymentProvider = "MERCADOPAGO" -> "processing"
      [] paymentProvider = "CASH_DEPOSIT" -> "paid_pending_review"
      [] OTHER -> "paid_pending_review"

\* a completion that sends the confirmation and leaves the order alone
HandlePaymentCompletedMailOnly(db, transaction) ==
    SendOrderConfirmationEmail(db)

HandlePaymentCompleted(db, transaction) ==
    IF transaction.orderId = NoOrder THEN Ret(db, "BadRequest")
    ELSE IF transaction.orderId \notin DOMAIN db.orders THEN Ret(db, "NotFound")
    ELSE LET newOrderStatus == DetermineOrderStatus(transaction.paymentProvider)
             r == UpdateStatus(db, transaction.orderId, newOrderStatus)
         IN  IF Failed(r) THEN r
             ELSE SendOrderConfirmationEmail(r.db)

\* the guard left out / the guard honoured for pending only
GuardDropped(transaction, status) == FALSE

GuardPendingOnly(transaction, status) ==
    transaction.status = status /\ status = "pending"

AlreadyInStatus(transaction, status) == transaction.status = status

MergeData(transaction, payphoneData) ==
    IF payphoneData # Undefined THEN payphoneData ELSE transaction.payphoneData

UpdatePaymentStatus(db, clientTransactionId, status, payphoneData) ==
    IF clientTransactionId \notin DOMAIN db.txs THEN Ret(db, "NotFound")
    ELSE LET transaction == db.txs[clientTransactionId]
         IN  IF AlreadyInStatus(transaction, status) THEN Ret(db, "ok")
             ELSE LET db1 == [db EXCEPT
                               !.txs[clientTransactionId].status = status,
                               !.txs[clientTransactionId].payphoneData =
                                   MergeData(transaction, payphoneData)]
                  IN  IF status = "completed"
                      THEN HandlePaymentCompleted(db1, transaction)
                      ELSE Ret(db1, "ok")

\* the existing-order short-circuit left out
OrderNeverSeen(transaction) == FALSE

HasOrder(transaction) == transaction.orderId # NoOrder

CreateOrderFromTransaction(db, clientTransactionId, initialStatus) ==
    IF clientTransactionId \notin DOMAIN db.txs THEN Ret(db, "NotFound")
    ELSE LET transaction == db.txs[clientTransactionId]
         IN  IF transaction.addressId = NULL THEN Ret(db, "BadRequest")
             ELSE IF HasOrder(transaction)
                  THEN RetVal(db, "ok", transaction.orderId)
             ELSE LET r == CreateFromPaymentTransaction(db, transaction.userId,
                               transaction.addressId, initialStatus,
                               clientTransactionId)
                  IN  IF Failed(r) THEN r
                      ELSE RetVal([r.db EXCEPT
                                     !.txs[clientTransactionId].orderId = r.val],
                                  "ok", r.val)

(* ------------------------ payment transaction service ------------------ *)
DtoProvider(p) == IF p = Undefined THEN "PAYPHONE" ELSE p

Truthy(d) == d # Undefined /\ d # NULL

NewTx(db, userId, orderId, amount, provider, addressId, data) ==
    [id |-> db.nextTx, userId |-> userId, orderId |-> orderId,
     amount |-> amount, status |-> "pending", paymentProvider |-> provider,
     addressId |-> addressId,
     payphoneData |-> IF Truthy(data) THEN data ELSE NULL]

\* prisma.paymentTransaction.create: clientTransactionId is unique
InsertTx(db, c, row) ==
    IF c \in DOMAIN db.txs THEN Ret(db, "Error")
    ELSE Ret([db EXCEPT !.txs = c :> row @@ @, !.nextTx = @ + 1], "ok")

\* prisma.paymentTransaction.deleteMany({orderId, userId, status: pending})
DeletePendingOfOrder(db, orderId, userId) ==
    LET keep == {c \in DOMAIN db.txs :
                    ~(/\ db.txs[c].orderId = orderId
                      /\ db.txs[c].userId = userId
                      /\ db.txs[c].status = "pending")}
    IN  [db EXCEPT !.txs = [c \in keep |-> db.txs[c]]]

CreateForExistingOrder(db, userId, c, orderId, provider) ==
    IF ~(orderId \in DOMAIN db.orders /\ db.orders[orderId].userId = userId)
    THEN Ret(db, "NotFound")
    ELSE InsertTx(db, c, NewTx(db, userId, orderId, db.orders[orderId].total,
                               DtoProvider(provider), NULL, Undefined))

\* mercadopagoProvider.processPayment throws BadRequest after the rows were
\* written and nothing undoes them / a call that rolls its writes back
GatewayFailureRolledBack(before, written) == Ret(before, "BadRequest")

GatewayFailure(before, written) == Ret(written, "BadRequest")

\* a rule that asks no provider for a stored payment method
NeedsPaymentMethodNever(provider) == FALSE

NeedsPaymentMethod(provider) ==
    provider # "PAYPHONE" /\ provider # "MERCADOPAGO"

CreateWithoutOrder(db, userId, c, addressId, provider, paymentMethodId, gw) ==
    IF addressId = Undefined THEN Ret(db, "BadRequest")
    ELSE IF NeedsPaymentMethod(DtoProvider(provider))
            /\ paymentMethodId = Undefined THEN Ret(db, "BadRequest")
    ELSE IF ~OwnsAddress(userId, addressId) THEN Ret(db, "NotFound")
    ELSE IF db.cart[userId] = 0 THEN Ret(db, "BadRequest")
    ELSE LET r == InsertTx(db, c, NewTx(db, userId, NoOrder, db.cart[userId],
                               DtoProvider(provider), addressId, Undefined))
         IN  IF Failed(r) THEN r
             ELSE IF DtoProvider(provider) = "MERCADOPAGO" /\ gw = GatewayThrows
                  THEN GatewayFailure(db, r.db)
             ELSE r

\* cartItems.length === 0 / a guard that lets the empty cart through
CartNeverEmpty(db, userId) == FALSE

CartIsEmpty(db, userId) == db.cart[userId] = 0

\* result.paymentData.initPoint || result.redirectUrl: the preference's
\* init_point or sandbox_init_point, undefined when it carries neither
InitPointDropped(gw) == Undefined

InitPoint(gw) == IF gw = "ok" THEN "init_point" ELSE Undefined

CreateWithOrder(db, userId, c, addressId, provider, data, retry, gw) ==
    IF addressId = Undefined THEN Ret(db, "BadRequest")
    ELSE IF ~OwnsAddress(userId, addressId) THEN Ret(db, "NotFound")
    ELSE IF CartIsEmpty(db, userId) THEN Ret(db, "BadRequest")
    ELSE LET id == NextOrderId(db)
             total == db.cart[userId]
             order == [userId |-> userId, addressId |-> addressId,
                       total |-> total, status |-> "pending",
                       depositImageUrl |-> NULL, origin |-> "checkout"]
             db1 == [db EXCEPT !.orders = id :> order @@ @]
             r == InsertTx(db1, c, NewTx(db1, userId, id, total,
                               DtoProvider(provider), addressId, data))
             cleared == IF retry THEN r.db
                        ELSE [r.db EXCEPT !.cart[userId] = 0]
         IN  IF Failed(r) THEN r
             ELSE IF DtoProvider(provider) = "MERCADOPAGO"
                  THEN IF gw = GatewayThrows THEN GatewayFailure(db, r.db)
                       ELSE [RetVal(cleared, "ok", id)
                                EXCEPT !.initPoint = InitPoint(gw)]
             ELSE RetVal(cleared, "ok", id)

\* a deletion that does not look at the status
DeleteUserPendingPaymentAnyStatus(db, userId, transactionId) ==
    LET found == {c \in DOMAIN db.txs :
                     /\ db.txs[c].id = transactionId
                     /\ db.txs[c].userId = userId}
    IN  IF found = {} THEN Ret(db, "NotFound")
        ELSE Ret([db EXCEPT !.txs = [c \in DOMAIN db.txs \ found |-> db.txs[c]]],
                 "ok")

DeleteUserPendingPayment(db, userId, transactionId) ==
    LET found == {c \in DOMAIN db.txs :
                     /\ db.txs[c].id = transactionId
                     /\ db.txs[c].userId = userId
                     /\ db.txs[c].status = "pending"}
    IN  IF found = {} THEN Ret(db, "NotFound")
        ELSE Ret([db EXCEPT !.txs = [c \in DOMAIN db.txs \ found |-> db.txs[c]]],
                 "ok")

RegenerateForOrder(db, orderId, userId, provider, data, newCtid, gw) ==
    IF ~(/\ orderId \in DOMAIN db.orders
         /\ db.orders[orderId].userId = userId
         /\ db.orders[orderId].status = "pending")
    THEN Ret(db, "NotFound")
    ELSE LET order == db.orders[orderId]
             db1 == DeletePendingOfOrder(db, orderId, userId)
             r == InsertTx(db1, newCtid, NewTx(db1, userId, orderId,
                               order.total, provider, order.addressId, data))
         IN  IF Failed(r) THEN r
             ELSE IF provider = "MERCADOPAGO" /\ gw = GatewayThrows
                  THEN GatewayFailure(db, r.db)
             ELSE r

(* ------------------------ payment webhook service ---------------------- *)
\* the already-completed short-circuit left out
CompletedNeverSeen(transaction) == FALSE

IsCompleted(transaction) == transaction.status = "completed"

\* a push path that acts on nothing / one that also fails the transaction
\* on a pushed rejection
HandleMercadoPagoWebhookDeaf(db, gw, externalReference) == Ret(db, "ok")

HandleMercadoPagoWebhookSymmetric(db, gw, externalReference) ==
    IF gw = GatewayThrows THEN Ret(db, "Error")
    ELSE IF externalReference \notin DOMAIN db.txs THEN Ret(db, "ok")
    ELSE IF gw = "approved"
         THEN UpdatePaymentStatus(db, externalReference, "completed", Undefined)
    ELSE IF gw \in {"rejected", "cancelled", "refunded"}
         THEN UpdatePaymentStatus(db, externalReference, "failed", Undefined)
    ELSE Ret(db, "ok")

\* a push path that leaves a failed transaction failed
HandleMercadoPagoWebhookPendingOnly(db, gw, externalReference) ==
    IF gw = GatewayThrows THEN Ret(db, "Error")
    ELSE IF externalReference = NULL THEN Ret(db, "ok")
    ELSE IF externalReference \notin DOMAIN db.txs THEN Ret(db, "ok")
    ELSE IF gw = "approved" /\ db.txs[externalReference].status = "pending"
         THEN UpdatePaymentStatus(db, externalReference, "completed", Undefined)
    ELSE Ret(db, "ok")

HandleMercadoPagoWebhook(db, gw, externalReference) ==
    IF gw = GatewayThrows THEN Ret(db, "Error")
    ELSE IF externalReference = NULL THEN Ret(db, "ok")
    ELSE IF externalReference \notin DOMAIN db.txs THEN Ret(db, "ok")
    ELSE IF gw = "approved"
         THEN UpdatePaymentStatus(db, externalReference, "completed", Undefined)
    ELSE Ret(db, "ok")

\* the catch block of verifyAndUpdateMercadoPagoPayment / no catch block
Rethrown(r) == r

Caught(r) == RetUpd(r.db, "error", FALSE)

\* in_process taken for an unknown status
WaitingPendingOnly(gw) == gw = "pending"

Waiting(gw) == gw = "pending" \/ gw = "in_process"

\* refunded taken for an unknown status
RejectingNoRefund(gw) == gw = "rejected" \/ gw = "cancelled"

Rejecting(gw) == gw = "rejected" \/ gw = "cancelled" \/ gw = "refunded"

\* the webhook endpoint: it answers 200 whatever handleMercadoPagoWebhook
\* did or threw / an endpoint that lets the exception through
WebhookReceiverUncaught(db, gw, externalReference) ==
    LET r == HandleMercadoPagoWebhook(db, gw, externalReference)
    IN  IF Failed(r) THEN r ELSE Ret(r.db, "200")

WebhookReceiver(db, gw, externalReference) ==
    Ret(HandleMercadoPagoWebhook(db, gw, externalReference).db, "200")

VerifyAndUpdateMercadoPagoPayment(db, gw, externalReference) ==
    IF gw = GatewayThrows THEN Caught(Ret(db, "Error"))
    ELSE IF externalReference \notin DOMAIN db.txs
         THEN RetUpd(db, "not_found", FALSE)
    ELSE IF IsCompleted(db.txs[externalReference])
         THEN RetUpd(db, "already_completed", FALSE)
    ELSE IF gw = "approved"
         THEN LET r == UpdatePaymentStatus(db, externalReference, "completed",
                                           Undefined)
              IN  IF Failed(r) THEN Caught(r)
                  ELSE RetUpd(r.db, "approved", TRUE)
    ELSE IF Waiting(gw) THEN RetUpd(db, "pending", FALSE)
    ELSE IF Rejecting(gw)
         THEN LET r == UpdatePaymentStatus(db, externalReference, "failed",
                                           Undefined)
              IN  IF Failed(r) THEN Caught(r)
                  ELSE RetUpd(r.db, gw, TRUE)
    ELSE RetUpd(db, IF gw = NULL THEN "unknown" ELSE gw, FALSE)

(* --------------------------- payments facade --------------------------- *)
\* createOrderFromPaymentTransaction inside try/catch: an error is swallowed
TryCreateOrder(db, c) ==
    IF HasOrder(db.txs[c]) THEN db
    ELSE CreateOrderFromTransaction(db, c, "pending").db

\* a phone payment that looks the transaction up without the caller
ProcessPhonePaymentAnyOwner(db, userId, c, payphoneResponse, gw) ==
    IF c \notin DOMAIN db.txs THEN Ret(db, "NotFound")
    ELSE IF Truthy(payphoneResponse)
         THEN LET db1 == [db EXCEPT !.txs[c].payphoneData = payphoneResponse]
              IN  Ret(TryCreateOrder(db1, c), "ok")
    ELSE IF gw = GatewayThrows
         THEN Ret([db EXCEPT !.txs[c].status = "failed"], "Error")
    ELSE LET db1 == [db EXCEPT !.txs[c].payphoneData = gw]
         IN  Ret(TryCreateOrder(db1, c), "ok")

\* a phone payment that also stamps the row as a PAYPHONE payment
ProcessPhonePaymentStamping(db, userId, c, payphoneResponse, gw) ==
    IF ~(c \in DOMAIN db.txs /\ db.txs[c].userId = userId)
    THEN Ret(db, "NotFound")
    ELSE LET db1 == [db EXCEPT !.txs[c].payphoneData =
                                  IF Truthy(payphoneResponse)
                                  THEN payphoneResponse ELSE gw,
                               !.txs[c].paymentProvider = "PAYPHONE"]
         IN  Ret(TryCreateOrder(db1, c), "ok")

ProcessPhonePayment(db, userId, c, payphoneResponse, gw) ==
    IF ~(c \in DOMAIN db.txs /\ db.txs[c].userId = userId)
    THEN Ret(db, "NotFound")
    ELSE IF Truthy(payphoneResponse)
         THEN LET db1 == [db EXCEPT !.txs[c].payphoneData = payphoneResponse]
              IN  Ret(TryCreateOrder(db1, c), "ok")
    ELSE IF gw = GatewayThrows
         THEN Ret([db EXCEPT !.txs[c].status = "failed"], "Error")
    ELSE LET db1 == [db EXCEPT !.txs[c].payphoneData = gw]
         IN  Ret(TryCreateOrder(db1, c), "ok")

(* ------------------------ cash deposit service ------------------------- *)
ProcessExistingOrderDeposit(db, userId, addressId, c, existingOrderId) ==
    IF ~(/\ existingOrderId \in DOMAIN db.orders
         /\ db.orders[existingOrderId].userId = userId
         /\ db.orders[existingOrderId].status = "pending")
    THEN Ret(db, "NotFound")
    ELSE LET order == db.orders[existingOrderId]
             db1 == DeletePendingOfOrder(db, existingOrderId, userId)
             r == InsertTx(db1, c, NewTx(db1, userId, existingOrderId,
                               order.total, "CASH_DEPOSIT", addressId, Undefined))
         IN  IF Failed(r) THEN r ELSE RetVal(r.db, "ok", existingOrderId)

ProcessNewOrderDeposit(db, userId, addressId, c) ==
    IF db.cart[userId] = 0 THEN Ret(db, "BadRequest")
    ELSE LET r == InsertTx(db, c, NewTx(db, userId, NoOrder, db.cart[userId],
                               "CASH_DEPOSIT", addressId, Undefined))
         IN  IF Failed(r) THEN r
             ELSE LET o == CreateFromPaymentTransaction(r.db, userId,
                               addressId, "pending", c)
                  IN  IF Failed(o) THEN o
                      ELSE RetVal([o.db EXCEPT !.txs[c].orderId = o.val],
                                  "ok", o.val)

\* cloudinaryService.uploadImage throws: the error leaves processCashDeposit
\* before the order is updated / a deposit that goes on without the image
UploadFailureTolerated(r) ==
    RetVal([r.db EXCEPT !.orders[r.val].status = "paid_pending_review"],
           "ok", r.val)

UploadFailure(r) == Ret(r.db, "Error")

\* a deposit that also completes its transaction
ProcessDepositCompleting(db, userId, addressId, c, existingOrderId, upload) ==
    IF ~OwnsAddress(userId, addressId) THEN Ret(db, "NotFound")
    ELSE LET r == IF existingOrderId # NoOrder
                  THEN ProcessExistingOrderDeposit(db, userId, addressId, c,
                                                   existingOrderId)
                  ELSE ProcessNewOrderDeposit(db, userId, addressId, c)
         IN  IF Failed(r) THEN r
             ELSE IF upload = GatewayThrows THEN UploadFailure(r)
             ELSE RetVal([r.db EXCEPT
                            !.orders[r.val].depositImageUrl = upload,
                            !.orders[r.val].status = "paid_pending_review",
                            !.txs[c].status = "completed"],
                         "ok", r.val)

ProcessCashDeposit(db, userId, addressId, c, existingOrderId, upload) ==
    IF ~OwnsAddress(userId, addressId) THEN Ret(db, "NotFound")
    ELSE LET r == IF existingOrderId # NoOrder
                  THEN ProcessExistingOrderDeposit(db, userId, addressId, c,
                                                   existingOrderId)
                  ELSE ProcessNewOrderDeposit(db, userId, addressId, c)
         IN  IF Failed(r) THEN r
             ELSE IF upload = GatewayThrows THEN UploadFailure(r)
             ELSE RetVal([r.db EXCEPT
                            !.orders[r.val].depositImageUrl = upload,
                            !.orders[r.val].status = "paid_pending_review"],
                         "ok", r.val)

(* ---------------------------- currency helper -------------------------- *)
\* Time is counted in half hours: CACHE_DURATION = 60 * 60 * 1000 ms.
CACHE_DURATION == 2
FALLBACK_RATE == 1200

\* let cachedRate: CachedRate | null = null
NoCachedRate == [rate |-> 0, timestamp |-> 0]

\* what fetch gives: an error (network, a status that is not ok) or an
\* answer with its venta and compra
Venta == {0, 0 - 5, 1300}
Compra == {0, 1000}
FetchFailed == [ok |-> FALSE, venta |-> 0, compra |-> 0]
FetchOutcome ==
    {FetchFailed} \cup [ok : {TRUE}, venta : Venta, compra : Compra]

\* data.venta || data.compra || 0
QuotedRate(data) == IF data.venta # 0 THEN data.venta ELSE data.compra

Fresh(cached, now) ==
    cached # NoCachedRate /\ now - cached.timestamp < CACHE_DURATION

\* the answer of a call: the rate, whether the rate source was contacted
\* and the cache the call leaves
Rate(rate, contacted, cached) ==
    [rate |-> rate, contacted |-> contacted, cached |-> cached]

NoQuote == Rate(0, FALSE, NoCachedRate)

\* a helper that goes straight to the static rate when the fetch fails
GetUsdToArsRateNoStale(cached, now, fetched) ==
    IF Fresh(cached, now) THEN Rate(cached.rate, FALSE, cached)
    ELSE IF fetched.ok /\ QuotedRate(fetched) > 0
         THEN Rate(QuotedRate(fetched), TRUE,
                   [rate |-> QuotedRate(fetched), timestamp |-> now])
    ELSE Rate(FALLBACK_RATE, TRUE,
              [rate |-> FALLBACK_RATE, timestamp |-> now])

GetUsdToArsRate(cached, now, fetched) ==
    IF Fresh(cached, now) THEN Rate(cached.rate, FALSE, cached)
    ELSE IF fetched.ok /\ QuotedRate(fetched) > 0
         THEN Rate(QuotedRate(fetched), TRUE,
                   [rate |-> QuotedRate(fetched), timestamp |-> now])
    ELSE IF cached # NoCachedRate THEN Rate(cached.rate, TRUE, cached)
    ELSE Rate(FALLBACK_RATE, TRUE,
              [rate |-> FALLBACK_RATE, timestamp |-> now])

(* ------------------------------- requests ------------------------------ *)
\* A request in flight: its position, the rows it has read and its outcome.
NoSnapshot == [status |-> NULL, orderId |-> NoOrder, paymentProvider |-> NULL,
               addressId |-> NULL, userId |-> NULL, payphoneData |-> NULL]

IdleWorker == [pc |-> "idle", op |-> NULL, u |-> NULL, c |-> NULL,
               t |-> NoSnapshot, prev |-> NULL, total |-> 0, oid |-> NoOrder,
               res |-> NULL]

Snapshot(row) == [status |-> row.status, orderId |-> row.orderId,
                  paymentProvider |-> row.paymentProvider,
                  addressId |-> row.addressId, userId |-> row.userId,
                  payphoneData |-> row.payphoneData]

CompletionTriggers == {"webhook", "verify", "public"}
RetryTriggers == {"regenerate", "deposit"}
OrderTriggers == {"createOrder", "phone"}

(* ------------------------------ histories ------------------------------ *)
NoCall == [op |-> "none", ctid |-> NULL, gw |-> NULL, res |-> NULL,
           changed |-> TRUE]

\* An operation of the API ran to its end: the store is the one it left and
\* last names the call, what the payment gateway answered during it (NULL
\* when it was not asked) and the outcome.  A call that left the store as it
\* found it ends the explored run: the runs that continue from that store
\* are the ones that continue from the state before the call.
Ready == steps < MaxSteps /\ last.changed

Commit(op, caller, c, gw, r) ==
    /\ steps' = steps + 1
    /\ txs' = r.db.txs
    /\ orders' = r.db.orders
    /\ cart' = r.db.cart
    /\ mail' = r.db.mail
    /\ nextTx' = r.db.nextTx
    /\ last' = [op |-> op, ctid |-> c, gw |-> gw, res |-> r.res,
                changed |-> r.db # DB]
    /\ UNCHANGED <<wk, fx>>

Init ==
    /\ txs = <<>>
    /\ orders = <<>>
    /\ cart \in [Users -> 0..MaxCart]
    /\ cart["u2"] = 0
    /\ mail = [status |-> 0, confirm |-> 0, up |-> TRUE]
    /\ nextTx = 1
    /\ steps = 0
    /\ last = NoCall
    /\ wk = [w \in Workers |-> IdleWorker]
    /\ cachedRate = NoCachedRate
    /\ clock = 0
    /\ quote = NoQuote

(* ------------------------------- actions ------------------------------- *)
\* A caller-supplied clientTransactionId is one in use or a new one; the
\* unused ones are interchangeable, so the new one is the first unused.
Unused == {i \in 1..Len(CtidOrder) : CtidOrder[i] \notin DOMAIN txs}

ClientCtids ==
    DOMAIN txs \cup
    (IF Unused = {} THEN {}
     ELSE {CtidOrder[CHOOSE i \in Unused : \A j \in Unused : i <= j]})

GatewayOutcome(p) == IF p = "MERCADOPAGO" THEN {"ok", GatewayThrows} ELSE {"ok"}

\* preference.create: a preference with an init point, one without, an error
PreferenceOutcome(p) ==
    IF p = "MERCADOPAGO" THEN {"ok", "bare", GatewayThrows} ELSE {"ok"}

\* cart.service: the shopper changes the cart lines
CartChange ==
    \E n \in 0..MaxCart :
        /\ n # cart["u1"]
        /\ Ready
        /\ Commit("cartChange", "u1", NULL, NULL,
                  Ret([DB EXCEPT !.cart["u1"] = n], "ok"))

\* the e-mail service goes down or comes back
MailServiceChange ==
    /\ Ready
    /\ Commit("mailService", NULL, NULL, NULL,
              Ret([DB EXCEPT !.mail.up = ~@], "ok"))

OpCreateTransaction ==
    \E u \in Users, c \in ClientCtids, o \in DOMAIN orders,
       p \in PaymentProvider :
        /\ Ready
        /\ Commit("createTransaction", u, c, NULL,
                  CreateForExistingOrder(DB, u, c, o, p))

OpCreateWithoutOrder ==
    \E u \in Users, c \in ClientCtids, p \in PaymentProvider,
       pm \in {Undefined, "pm1"} :
        \E gw \in GatewayOutcome(p) :
            /\ Ready
            /\ Commit("createWithoutOrder", u, c, NULL,
                      CreateWithoutOrder(DB, u, c, "a1", p, pm, gw))

OpCreateTransactionAndOrder ==
    \E u \in Users, c \in ClientCtids, p \in PaymentProvider,
       retry \in BOOLEAN :
        \E gw \in PreferenceOutcome(p) :
            /\ Ready
            /\ Commit("createTransactionAndOrder", u, c, NULL,
                      CreateWithOrder(DB, u, c, "a1", p, Undefined, retry, gw))

OpUpdatePaymentStatus ==
    \E c \in Ctids, s \in PaymentStatus, d \in {Undefined, "d1"} :
        /\ Ready
        /\ Commit("updatePaymentStatus", NULL, c, NULL,
                  UpdatePaymentStatus(DB, c, s, d))

OpCreateOrderFromTransaction ==
    \E c \in Ctids, s \in {"pending", "created"} :
        /\ Ready
        /\ Commit("createOrderFromTransaction", NULL, c, NULL,
                  CreateOrderFromTransaction(DB, c, s))

OpHandleWebhook ==
    \E gw \in GatewayStatus \cup {GatewayThrows}, x \in Ctids \cup {NULL} :
        /\ Ready
        /\ Commit("handleWebhook", NULL, x, gw, WebhookReceiver(DB, gw, x))

OpVerifyAndUpdate ==
    \E gw \in GatewayStatus \cup {GatewayThrows}, c \in Ctids :
        /\ Ready
        /\ Commit("verifyAndUpdate", NULL, c, gw,
                  VerifyAndUpdateMercadoPagoPayment(DB, gw, c))

OpProcessPhonePayment ==
    \E u \in Users, c \in Ctids, resp \in {Undefined, "d1"},
       gw \in {"d2", GatewayThrows} :
        /\ Ready
        /\ Commit("processPhonePayment", u, c, NULL,
                  ProcessPhonePayment(DB, u, c, resp, gw))

OpRegenerateForOrder ==
    \E u \in Users, o \in DOMAIN orders, p \in PaymentProvider,
       d \in {Undefined, "d1"}, new \in Ctids :
        \E gw \in GatewayOutcome(p) :
            /\ Ready
            /\ Commit("regenerateForOrder", u, new, NULL,
                      RegenerateForOrder(DB, o, u, p, d, new, gw))

OpProcessDeposit ==
    \E u \in Users, c \in ClientCtids, o \in {NoOrder} \cup DOMAIN orders,
       upload \in {"img", GatewayThrows} :
        /\ Ready
        /\ Commit("processDeposit", u, c, NULL,
                  ProcessCashDeposit(DB, u, "a1", c, o, upload))

OpDeleteUserPendingPayment ==
    \E u \in Users, id \in 1..nextTx :
        /\ Ready
        /\ Commit("deleteUserPendingPayment", u, NULL, NULL,
                  DeleteUserPendingPayment(DB, u, id))

\* orders.controller PATCH :id/status (admin)
AdminUpdateStatus ==
    \E o \in DOMAIN orders, s \in OrderStatus :
        /\ Ready
        /\ Commit("adminUpdateStatus", NULL, NULL, NULL, UpdateStatus(DB, o, s))

(* --------------------- requests that run concurrently ------------------ *)
\* Every store read, store write and e-mail send of a request is a step of
\* its own; the steps of two requests interleave freely.
AllIdle == \A w \in Workers : wk[w].pc = "idle"

Goto(w, pc) == wk' = [wk EXCEPT ![w].pc = pc]
Done(w, res) == wk' = [wk EXCEPT ![w].pc = "done", ![w].res = res]

\* the gateway reports approved; webhook and verify look the transaction up
StartCompletion(w) ==
    \E kind \in CompletionTriggers, c \in DOMAIN txs :
        /\ wk[w].pc = "idle"
        /\ wk' = [wk EXCEPT ![w].op = kind, ![w].c = c,
                    ![w].pc = IF kind = "public" THEN "ups_find" ELSE "lookup"]
        /\ UNCHANGED <<txs, orders, cart, mail, nextTx, steps, last, fx>>

Lookup(w) ==
    /\ wk[w].pc = "lookup"
    /\ IF wk[w].c \notin DOMAIN txs
       THEN Done(w, IF wk[w].op = "verify" THEN "not_found" ELSE "ok")
       ELSE IF wk[w].op = "verify" /\ IsCompleted(txs[wk[w].c])
            THEN Done(w, "already_completed")
            ELSE Goto(w, "ups_find")
    /\ UNCHANGED <<txs, orders, cart, mail, nextTx, steps, last, fx>>

UpsFind(w) ==
    /\ wk[w].pc = "ups_find"
    /\ IF wk[w].c \notin DOMAIN txs THEN Done(w, "NotFound")
       ELSE IF AlreadyInStatus(txs[wk[w].c], "completed") THEN Done(w, "ok")
       ELSE wk' = [wk EXCEPT ![w].t = Snapshot(txs[wk[w].c]),
                             ![w].pc = "ups_write"]
    /\ UNCHANGED <<txs, orders, cart, mail, nextTx, steps, last, fx>>

\* prisma update of a row that is gone throws
UpsWrite(w) ==
    /\ wk[w].pc = "ups_write"
    /\ IF wk[w].c \in DOMAIN txs
       THEN /\ txs' = [txs EXCEPT ![wk[w].c].status = "completed",
                                  ![wk[w].c].payphoneData =
                                      IF wk[w].t.payphoneData # NULL
                                      THEN MergeData(wk[w].t, Undefined) ELSE @]
            /\ Goto(w, "hpc_find")
       ELSE /\ Done(w, "Error")
            /\ UNCHANGED txs
    /\ UNCHANGED <<orders, cart, mail, nextTx, steps, last, fx>>

HpcFind(w) ==
    /\ wk[w].pc = "hpc_find"
    /\ IF wk[w].t.orderId = NoOrder THEN Done(w, "BadRequest")
       ELSE IF wk[w].t.orderId \notin DOMAIN orders THEN Done(w, "NotFound")
       ELSE Goto(w, "us_find")
    /\ UNCHANGED <<txs, orders, cart, mail, nextTx, steps, last, fx>>

UsFind(w) ==
    /\ wk[w].pc = "us_find"
    /\ wk' = [wk EXCEPT ![w].prev = orders[wk[w].t.orderId].status,
                        ![w].pc = "us_write"]
    /\ UNCHANGED <<txs, orders, cart, mail, nextTx, steps, last, fx>>

UsWrite(w) ==
    /\ wk[w].pc = "us_write"
    /\ orders' = [orders EXCEPT ![wk[w].t.orderId].status =
                      DetermineOrderStatus(wk[w].t.paymentProvider)]
    /\ Goto(w, "us_mail")
    /\ UNCHANGED <<txs, cart, mail, nextTx, steps, last, fx>>

UsMail(w) ==
    /\ wk[w].pc = "us_mail"
    /\ LET status == DetermineOrderStatus(wk[w].t.paymentProvider)
       IN  mail' = IF wk[w].prev # status
                   THEN SendOrderStatusEmail(DB, status, wk[w].prev).db.mail
                   ELSE mail
    /\ Goto(w, "hpc_mail")
    /\ UNCHANGED <<txs, orders, cart, nextTx, steps, last, fx>>

HpcMail(w) ==
    /\ wk[w].pc = "hpc_mail"
    /\ mail' = SendOrderConfirmationEmail(DB).db.mail
    /\ Done(w, "ok")
    /\ UNCHANGED <<txs, orders, cart, nextTx, steps, last, fx>>

\* createOrderFromTransaction, directly or from processPhonePayment with a
\* client-supplied result
StartOrder(w) ==
    \E kind \in OrderTriggers, c \in DOMAIN txs :
        /\ wk[w].pc = "idle"
        /\ wk' = [wk EXCEPT ![w].op = kind, ![w].c = c,
                    ![w].pc = IF kind = "phone" THEN "pp_find" ELSE "co_find"]
        /\ UNCHANGED <<txs, orders, cart, mail, nextTx, steps, last, fx>>

PpFind(w) ==
    /\ wk[w].pc = "pp_find"
    /\ IF wk[w].c \notin DOMAIN txs THEN Done(w, "NotFound")
       ELSE Goto(w, "pp_write")
    /\ UNCHANGED <<txs, orders, cart, mail, nextTx, steps, last, fx>>

PpWrite(w) ==
    /\ wk[w].pc = "pp_write"
    /\ txs' = [txs EXCEPT ![wk[w].c].payphoneData = "d1"]
    /\ IF HasOrder(txs[wk[w].c]) THEN Done(w, "ok") ELSE Goto(w, "co_find")
    /\ UNCHANGED <<orders, cart, mail, nextTx, steps, last, fx>>

\* an error of createOrderFromTransaction is swallowed by processPhonePayment
Thrown(w, res) == Done(w, IF wk[w].op = "phone" THEN "ok" ELSE res)

CoFind(w) ==
    /\ wk[w].pc = "co_find"
    /\ IF wk[w].c \notin DOMAIN txs THEN Thrown(w, "NotFound")
       ELSE IF txs[wk[w].c].addressId = NULL THEN Thrown(w, "BadRequest")
       ELSE IF HasOrder(txs[wk[w].c])
            THEN wk' = [wk EXCEPT ![w].pc = "done", ![w].res = "ok",
                                  ![w].oid = txs[wk[w].c].orderId]
       ELSE wk' = [wk EXCEPT ![w].t = Snapshot(txs[wk[w].c]),
                             ![w].pc = "co_cart"]
    /\ UNCHANGED <<txs, orders, cart, mail, nextTx, steps, last, fx>>

CoCart(w) ==
    /\ wk[w].pc = "co_cart"
    /\ IF ~OwnsAddress(wk[w].t.userId, wk[w].t.addressId)
       THEN Thrown(w, "NotFound")
       ELSE IF cart[wk[w].t.userId] = 0 THEN Thrown(w, "BadRequest")
       ELSE wk' = [wk EXCEPT ![w].total = cart[wk[w].t.userId],
                             ![w].pc = "co_create"]
    /\ UNCHANGED <<txs, orders, cart, mail, nextTx, steps, last, fx>>

CoCreate(w) ==
    /\ wk[w].pc = "co_create"
    /\ LET id == NextOrderId(DB)
       IN  /\ orders' = id :> [userId |-> wk[w].t.userId,
                               addressId |-> wk[w].t.addressId,
                               total |-> wk[w].total, status |-> "pending",
                               depositImageUrl |-> NULL,
                               origin |-> wk[w].c] @@ orders
           /\ wk' = [wk EXCEPT ![w].oid = id, ![w].pc = "co_clear"]
    /\ UNCHANGED <<txs, cart, mail, nextTx, steps, last, fx>>

CoClear(w) ==
    /\ wk[w].pc = "co_clear"
    /\ cart' = [cart EXCEPT ![wk[w].t.userId] = 0]
    /\ Goto(w, "co_link")
    /\ UNCHANGED <<txs, orders, mail, nextTx, steps, last, fx>>

CoLink(w) ==
    /\ wk[w].pc = "co_link"
    /\ txs' = [txs EXCEPT ![wk[w].c].orderId = wk[w].oid]
    /\ Done(w, "ok")
    /\ UNCHANGED <<orders, cart, mail, nextTx, steps, last, fx>>

\* deleteUserPendingPayment(u, T): findFirst({id, userId, status: pending}),
\* then delete({id})
StartDelete(w) ==
    \E u \in Users, c \in DOMAIN txs :
        /\ wk[w].pc = "idle"
        /\ wk' = [wk EXCEPT ![w].op = "delete", ![w].u = u, ![w].c = c,
                            ![w].pc = "del_find"]
        /\ UNCHANGED <<txs, orders, cart, mail, nextTx, steps, last, fx>>

DelFind(w) ==
    /\ wk[w].pc = "del_find"
    /\ IF /\ wk[w].c \in DOMAIN txs
          /\ txs[wk[w].c].userId = wk[w].u
          /\ txs[wk[w].c].status = "pending"
       THEN Goto(w, "del_write")
       ELSE Done(w, "NotFound")
    /\ UNCHANGED <<txs, orders, cart, mail, nextTx, steps, last, fx>>

DelWrite(w) ==
    /\ wk[w].pc = "del_write"
    /\ IF wk[w].c \in DOMAIN txs
       THEN /\ txs' = [c \in DOMAIN txs \ {wk[w].c} |-> txs[c]]
            /\ Done(w, "ok")
       ELSE /\ Done(w, "Error")
            /\ UNCHANGED txs
    /\ UNCHANGED <<orders, cart, mail, nextTx, steps, last, fx>>

\* regenerateForOrder and the deposit retry: order.findFirst, deleteMany of
\* the order's pending transactions, create of the new one; the deposit then
\* uploads the image and updates the order
StartRetry(w) ==
    \E kind \in RetryTriggers, u \in Users, o \in DOMAIN orders :
        /\ wk[w].pc = "idle"
        /\ kind = "deposit" => OwnsAddress(u, "a1")
        /\ wk' = [wk EXCEPT ![w].op = kind, ![w].u = u, ![w].oid = o,
                            ![w].pc = "rt_find"]
        /\ UNCHANGED <<txs, orders, cart, mail, nextTx, steps, last, fx>>

RtFind(w) ==
    /\ wk[w].pc = "rt_find"
    /\ IF /\ orders[wk[w].oid].userId = wk[w].u
          /\ orders[wk[w].oid].status = "pending"
       THEN wk' = [wk EXCEPT ![w].total = orders[wk[w].oid].total,
                             ![w].pc = "rt_delete"]
       ELSE Done(w, "NotFound")
    /\ UNCHANGED <<txs, orders, cart, mail, nextTx, steps, last, fx>>

RtDelete(w) ==
    /\ wk[w].pc = "rt_delete"
    /\ txs' = DeletePendingOfOrder(DB, wk[w].oid, wk[w].u).txs
    /\ Goto(w, "rt_create")
    /\ UNCHANGED <<orders, cart, mail, nextTx, steps, last, fx>>

\* the new clientTransactionId is random (regenerate) or the client's
\* (deposit): one not in use, or one in use, which the unique index refuses
RtCreate(w) ==
    \E c \in ClientCtids :
        LET provider == IF wk[w].op = "deposit" THEN "CASH_DEPOSIT"
                        ELSE "PAYPHONE"
            r == InsertTx(DB, c, NewTx(DB, wk[w].u, wk[w].oid, wk[w].total,
                                       provider, "a1", Undefined))
        IN  /\ wk[w].pc = "rt_create"
            /\ txs' = r.db.txs
            /\ nextTx' = r.db.nextTx
            /\ IF Failed(r) THEN Done(w, "Error")
               ELSE IF wk[w].op = "deposit"
                    THEN wk' = [wk EXCEPT ![w].c = c, ![w].pc = "rt_upload"]
               ELSE wk' = [wk EXCEPT ![w].c = c, ![w].pc = "done",
                                     ![w].res = "ok"]
            /\ UNCHANGED <<orders, cart, mail, steps, last, fx>>

RtUpload(w) ==
    /\ wk[w].pc = "rt_upload"
    /\ orders' = [orders EXCEPT ![wk[w].oid].depositImageUrl = "img",
                                ![wk[w].oid].status = "paid_pending_review"]
    /\ Done(w, "ok")
    /\ UNCHANGED <<txs, cart, mail, nextTx, steps, last, fx>>

\* the store the requests race on is prepared by checkout calls
Setup ==
    /\ AllIdle
    /\ steps < MaxSetup
    /\ (OpCreateTransactionAndOrder \/ OpCreateWithoutOrder)

NextRace ==
    \/ Setup
    \/ \E w \in Workers :
        \/ StartCompletion(w) \/ Lookup(w) \/ UpsFind(w) \/ UpsWrite(w)
        \/ HpcFind(w) \/ UsFind(w) \/ UsWrite(w) \/ UsMail(w) \/ HpcMail(w)
        \/ StartOrder(w) \/ PpFind(w) \/ PpWrite(w) \/ CoFind(w)
        \/ CoCart(w) \/ CoCreate(w) \/ CoClear(w) \/ CoLink(w)

SpecRace == Init /\ [][NextRace]_vars

\* Completion triggers racing with the deletion of pending payments.
NextRaceDelete ==
    \/ Setup
    \/ \E w \in Workers :
        \/ StartCompletion(w) \/ Lookup(w) \/ UpsFind(w) \/ UpsWrite(w)
        \/ HpcFind(w) \/ UsFind(w) \/ UsWrite(w) \/ UsMail(w) \/ HpcMail(w)
        \/ StartDelete(w) \/ DelFind(w) \/ DelWrite(w)

SpecRaceDelete == Init /\ [][NextRaceDelete]_vars

\* Payment retries for one order racing with each other.
NextRaceRetry ==
    \/ Setup
    \/ \E w \in Workers :
        \/ StartRetry(w) \/ RtFind(w) \/ RtDelete(w) \/ RtCreate(w)
        \/ RtUpload(w)

SpecRaceRetry == Init /\ [][NextRaceRetry]_vars

\* The payment flow: checkout, the public status update, phone payment,
\* lazy order creation, admin order transitions.
Next ==
    \/ OpCreateWithoutOrder
    \/ OpCreateTransactionAndOrder
    \/ OpUpdatePaymentStatus
    \/ OpCreateOrderFromTransaction
    \/ OpProcessPhonePayment
    \/ AdminUpdateStatus

Spec == Init /\ [][Next]_vars

\* Reconciliation with the gateway: checkout, confirmation by push and by
\* pull, the public status update.
NextReconcile ==
    \/ OpCreateWithoutOrder
    \/ OpCreateTransactionAndOrder
    \/ OpUpdatePaymentStatus
    \/ OpHandleWebhook
    \/ OpVerifyAndUpdate

SpecReconcile == Init /\ [][NextReconcile]_vars

\* The retry flow: transactions for existing orders, regeneration, deposits,
\* deletion of pending payments.
NextRetry ==
    \/ CartChange
    \/ OpCreateTransaction
    \/ OpCreateTransactionAndOrder
    \/ OpUpdatePaymentStatus
    \/ OpRegenerateForOrder
    \/ OpProcessDeposit
    \/ OpDeleteUserPendingPayment

SpecRetry == Init /\ [][NextRetry]_vars

\* Date.now() moves on
ClockTick ==
    /\ clock < MaxClock
    /\ clock' = clock + 1
    /\ UNCHANGED <<txs, orders, cart, mail, nextTx, steps, last, wk,
                   cachedRate, quote>>

OpGetUsdToArsRate ==
    \E fetched \in FetchOutcome :
        LET r == GetUsdToArsRate(cachedRate, clock, fetched)
        IN  /\ cachedRate' = r.cached
            /\ quote' = r
            /\ UNCHANGED <<txs, orders, cart, mail, nextTx, steps, last, wk,
                           clock>>

\* Currency conversion: rate requests as time passes.
NextRate == ClockTick \/ OpGetUsdToArsRate

SpecRate == Init /\ [][NextRate]_vars

\* The operations that write to a transaction after its creation.
NextCore ==
    \/ OpCreateWithoutOrder
    \/ OpCreateTransactionAndOrder
    \/ OpUpdatePaymentStatus
    \/ OpCreateOrderFromTransaction
    \/ OpProcessPhonePayment
    \/ OpHandleWebhook
    \/ OpVerifyAndUpdate
    \/ OpProcessDeposit

SpecCore == Init /\ [][NextCore]_vars

\* Lazy order derivation while the shopper keeps using the cart.
NextLazy ==
    \/ CartChange
    \/ OpCreateWithoutOrder
    \/ OpCreateTransactionAndOrder
    \/ OpCreateOrderFromTransaction
    \/ OpProcessPhonePayment
    \/ OpProcessDeposit

SpecLazy == Init /\ [][NextLazy]_vars

\* The operations that add a transaction to an order.
NextActive ==
    \/ OpCreateTransaction
    \/ OpCreateTransactionAndOrder
    \/ OpRegenerateForOrder
    \/ OpProcessDeposit

SpecActive == Init /\ [][NextActive]_vars

\* Completion while the e-mail service may be down.
NextMail ==
    \/ MailServiceChange
    \/ OpCreateTransactionAndOrder
    \/ OpUpdatePaymentStatus
    \/ AdminUpdateStatus

SpecMail == Init /\ [][NextMail]_vars

(* ------------------------------- properties ---------------------------- *)
MailCount(db) == db.mail.status + db.mail.confirm

Linked(c) == HasOrder(txs[c]) /\ txs[c].orderId \in DOMAIN orders

\* C1: once a transaction's status is completed, no operation changes it
\* away from completed.
C1_CompletedSticky ==
    [][\A c \in DOMAIN txs :
          (txs[c].status = "completed" /\ c \in DOMAIN txs'
             /\ txs'[c].id = txs[c].id)
          => txs'[c].status = "completed"]_vars

\* C2: updatePaymentStatus with the status the transaction already has
\* writes nothing (transaction, orders) and sends no notification.
C2_NoOpGuard ==
    \A c \in DOMAIN txs, d \in {Undefined} \cup DataVals :
        LET r == UpdatePaymentStatus(DB, c, txs[c].status, d)
        IN  r.res = "ok" /\ r.db = DB

C2_Witness ==
    /\ last.op = "updatePaymentStatus" /\ last.res = "ok" /\ ~last.changed
    /\ last.ctid \in DOMAIN txs
    /\ txs[last.ctid].status = "failed"

\* C3 as stated: two consecutive updatePaymentStatus(X, completed) on a
\* pending X with a linked order send exactly one notification in total, the
\* second none, and the second leaves the order status as the first left it.
C3_OneNotification ==
    \A c \in DOMAIN txs :
        (txs[c].status = "pending" /\ Linked(c)) =>
            LET r1 == UpdatePaymentStatus(DB, c, "completed", Undefined)
                r2 == UpdatePaymentStatus(r1.db, c, "completed", Undefined)
            IN  /\ MailCount(r2.db) - MailCount(DB) = 1
                /\ MailCount(r2.db) = MailCount(r1.db)
                /\ r2.db.orders = r1.db.orders

\* C3 amended: the first call sends one confirmation e-mail and, when the
\* order was not yet at its target status, one status-change e-mail; the
\* second call sends nothing and leaves transaction and order as they were.
C3_IdempotentCompletion ==
    \A c \in DOMAIN txs :
        (txs[c].status = "pending" /\ Linked(c)) =>
            LET r1 == UpdatePaymentStatus(DB, c, "completed", Undefined)
                r2 == UpdatePaymentStatus(r1.db, c, "completed", Undefined)
                o == txs[c].orderId
                target == DetermineOrderStatus(txs[c].paymentProvider)
            IN  /\ r1.res = "ok" /\ r2.res = "ok"
                /\ r1.db.mail.confirm = mail.confirm + 1
                /\ r1.db.mail.status =
                       mail.status + (IF orders[o].status # target THEN 1 ELSE 0)
                /\ r2.db.mail = r1.db.mail
                /\ r2.db.orders = r1.db.orders
                /\ r2.db.txs = r1.db.txs

C3_Witness ==
    /\ last.op = "updatePaymentStatus" /\ last.res = "ok" /\ ~last.changed
    /\ last.ctid \in DOMAIN txs
    /\ txs[last.ctid].status = "completed"
    /\ Linked(last.ctid)
    /\ orders[txs[last.ctid].orderId].status =
           DetermineOrderStatus(txs[last.ctid].paymentProvider)
    /\ mail.status = 1 /\ mail.confirm = 1

\* C4: two completion triggers racing on the same pending transaction send
\* the completion notifications at most once.
C4_RaceAbsorbed ==
    \A v, w \in Workers :
        (/\ v # w
         /\ wk[v].op \in CompletionTriggers /\ wk[w].op \in CompletionTriggers
         /\ wk[v].c = wk[w].c)
        => (mail.confirm <= 1 /\ mail.status <= 1)

\* C5: with an address and a non-empty cart, two consecutive
\* createOrderFromTransaction calls return the same order id and leave
\* exactly one order row for the transaction.
C5_IdempotentOrderDerivation ==
    \A c \in DOMAIN txs, s1 \in {"pending", "created"},
       s2 \in {"pending", "created"} :
        (txs[c].addressId # NULL /\ cart[txs[c].userId] > 0) =>
            LET r1 == CreateOrderFromTransaction(DB, c, s1)
                r2 == CreateOrderFromTransaction(r1.db, c, s2)
            IN  /\ r1.res = "ok" /\ r2.res = "ok"
                /\ r1.val # NoOrder /\ r2.val = r1.val
                /\ r2.db.txs[c].orderId = r1.val
                /\ r1.val \in DOMAIN r2.db.orders
                /\ Cardinality(DOMAIN r2.db.orders) =
                       Cardinality(DOMAIN orders)
                         + (IF HasOrder(txs[c]) THEN 0 ELSE 1)

C5_Witness ==
    /\ last.op = "createOrderFromTransaction" /\ last.res = "ok"
    /\ ~last.changed
    /\ last.ctid \in DOMAIN txs
    /\ Linked(last.ctid)
    /\ orders[txs[last.ctid].orderId].origin = last.ctid
    /\ Cardinality(DOMAIN orders) = 1

\* C6: under interleaved createOrderFromTransaction / processPhonePayment
\* calls a transaction's orderId, once set, never changes, and at most one
\* order row is created for the transaction.
C6_OrderIdSetOnce ==
    [][\A c \in DOMAIN txs :
          /\ HasOrder(txs[c]) => txs'[c].orderId = txs[c].orderId
          /\ Cardinality({o \in DOMAIN orders' : orders'[o].origin = c}) <= 1
      ]_vars

\* C7: completing a transaction with a linked order puts the order in
\* processing for PAYPHONE and MERCADOPAGO and in paid_pending_review for
\* CASH_DEPOSIT and every other provider.
C7_ProviderMapping ==
    \A c \in DOMAIN txs, d \in {Undefined} \cup DataVals :
        (txs[c].status # "completed" /\ Linked(c)) =>
            LET r == UpdatePaymentStatus(DB, c, "completed", d)
            IN  /\ r.res = "ok"
                /\ r.db.txs[c].status = "completed"
                /\ r.db.orders[txs[c].orderId].status =
                       IF txs[c].paymentProvider \in {"PAYPHONE", "MERCADOPAGO"}
                       THEN "processing" ELSE "paid_pending_review"

C7_Witness ==
    /\ last.op = "updatePaymentStatus" /\ last.res = "ok" /\ last.changed
    /\ last.ctid \in DOMAIN txs
    /\ txs[last.ctid].status = "completed"
    /\ txs[last.ctid].paymentProvider = "CRYPTO"
    /\ Linked(last.ctid)
    /\ orders[txs[last.ctid].orderId].status = "paid_pending_review"

Rank(status) ==
    CASE status \in {"created", "pending"} -> 0
      [] status \in {"processing", "paid_pending_review"} -> 1
      [] status = "shipping" -> 2
      [] status = "delivered" -> 3
      [] OTHER -> 4

Forward(from, to) ==
    \/ from = to
    \/ from # "cancelled" /\ to # "cancelled" /\ Rank(from) < Rank(to)
    \/ Rank(from) = 1 /\ Rank(to) = 1

\* C8: no core operation (everything but the admin transition) moves an
\* order backward in created/pending -> processing | paid_pending_review ->
\* shipping -> delivered, or out of cancelled.
C8_OrderForwardOnly ==
    [][last'.op # "adminUpdateStatus" =>
          \A o \in DOMAIN orders :
              Forward(orders[o].status, orders'[o].status)]_vars

C10_VerifyShortCircuit ==
    \A c \in DOMAIN txs, gw \in GatewayStatus \cup {GatewayThrows} :
        txs[c].status = "completed" =>
            LET r == VerifyAndUpdateMercadoPagoPayment(DB, gw, c)
            IN  /\ r.updated = FALSE
                /\ r.db = DB
                /\ (gw # GatewayThrows => r.res = "already_completed")

C10_Witness ==
    /\ last.op = "verifyAndUpdate" /\ last.res = "already_completed"
    /\ ~last.changed
    /\ last.ctid \in DOMAIN txs
    /\ txs[last.ctid].status = "completed"

Target(paymentProvider) ==
    IF paymentProvider \in {"PAYPHONE", "MERCADOPAGO"}
    THEN "processing" ELSE "paid_pending_review"

\* C11: verifyAndUpdate never throws: a gateway failure or an error raised
\* by updatePaymentStatus comes back as {status: error, updated: false}.
C11_VerifyNeverThrows ==
    \A c \in Ctids, gw \in GatewayStatus \cup {GatewayThrows} :
        LET r == VerifyAndUpdateMercadoPagoPayment(DB, gw, c)
            inner == /\ c \in DOMAIN txs
                     /\ txs[c].status # "completed"
                     /\ \/ /\ gw = "approved"
                           /\ Failed(UpdatePaymentStatus(DB, c, "completed",
                                                         Undefined))
                        \/ /\ gw \in {"rejected", "cancelled", "refunded"}
                           /\ Failed(UpdatePaymentStatus(DB, c, "failed",
                                                         Undefined))
        IN  /\ ~Failed(r)
            /\ (gw = GatewayThrows \/ inner)
                   => (r.res = "error" /\ r.updated = FALSE)

C11_Witness ==
    /\ last.op = "verifyAndUpdate" /\ last.gw = "approved"
    /\ last.res = "error"
    /\ last.ctid \in DOMAIN txs
    /\ txs[last.ctid].orderId = NoOrder

\* C12: the webhook receiver answers 200 for every payment id and every
\* outcome of handleWebhook, errors included.
C12_WebhookAlwaysSucceeds ==
    /\ \A x \in Ctids \cup {NULL}, gw \in GatewayStatus \cup {GatewayThrows} :
           LET r == WebhookReceiver(DB, gw, x)
           IN  r.res = "200"
               /\ r.db = HandleMercadoPagoWebhook(DB, gw, x).db
    /\ last.op = "handleWebhook" => last.res = "200"

C12_Witness ==
    /\ last.op = "handleWebhook" /\ last.gw = "approved" /\ last.res = "200"
    /\ last.changed
    /\ last.ctid \in DOMAIN txs
    /\ txs[last.ctid].status = "completed"
    /\ txs[last.ctid].orderId = NoOrder

\* C13: an approved webhook for a pending MERCADOPAGO transaction with a
\* linked order completes it and puts the order in processing; a later
\* verifyAndUpdate answers already_completed and changes nothing.
C13_WebhookThenPoll ==
    \A c \in DOMAIN txs :
        (/\ txs[c].status = "pending"
         /\ txs[c].paymentProvider = "MERCADOPAGO"
         /\ Linked(c)) =>
            LET r1 == HandleMercadoPagoWebhook(DB, "approved", c)
            IN  /\ r1.res = "ok"
                /\ r1.db.txs[c].status = "completed"
                /\ r1.db.orders[txs[c].orderId].status = "processing"
                /\ \A gw \in GatewayStatus :
                       LET r2 == VerifyAndUpdateMercadoPagoPayment(r1.db, gw, c)
                       IN  /\ r2.res = "already_completed"
                           /\ r2.updated = FALSE
                           /\ r2.db = r1.db

C13_Witness ==
    /\ last.op = "handleWebhook" /\ last.gw = "approved" /\ last.changed
    /\ last.ctid \in DOMAIN txs
    /\ txs[last.ctid].status = "completed"
    /\ txs[last.ctid].paymentProvider = "MERCADOPAGO"
    /\ Linked(last.ctid)
    /\ orders[txs[last.ctid].orderId].status = "processing"
    /\ VerifyAndUpdateMercadoPagoPayment(DB, "approved", last.ctid).res
           = "already_completed"

\* C14: verifyAndUpdate on a pending transaction with a gateway status of
\* rejected, cancelled or refunded fails the transaction, returns that
\* status with updated:true, and leaves orders and notifications alone.
C14_RejectedViaPull ==
    \A c \in DOMAIN txs, gw \in {"rejected", "cancelled", "refunded"} :
        txs[c].status = "pending" =>
            LET r == VerifyAndUpdateMercadoPagoPayment(DB, gw, c)
            IN  /\ r.db.txs[c].status = "failed"
                /\ r.res = gw /\ r.updated = TRUE
                /\ r.db.orders = orders
                /\ r.db.mail = mail

C14_Witness ==
    /\ last.op = "verifyAndUpdate" /\ last.gw = "refunded"
    /\ last.res = "refunded" /\ last.changed
    /\ last.ctid \in DOMAIN txs
    /\ txs[last.ctid].status = "failed"
    /\ Linked(last.ctid)
    /\ orders[txs[last.ctid].orderId].status = "pending"
    /\ mail.status = 0 /\ mail.confirm = 0

\* C15: verifyAndUpdate on a pending transaction with a linked order, the
\* gateway reporting approved, completes the transaction, brings the order
\* to the provider's target status and returns {approved, updated:true}.
C15_PullRecovers ==
    \A c \in DOMAIN txs :
        (txs[c].status = "pending" /\ Linked(c)) =>
            LET r == VerifyAndUpdateMercadoPagoPayment(DB, "approved", c)
            IN  /\ r.res = "approved" /\ r.updated = TRUE
                /\ r.db.txs[c].status = "completed"
                /\ r.db.orders[txs[c].orderId].status =
                       Target(txs[c].paymentProvider)

C15_Witness ==
    /\ last.op = "verifyAndUpdate" /\ last.gw = "approved"
    /\ last.res = "approved" /\ last.changed
    /\ last.ctid \in DOMAIN txs
    /\ txs[last.ctid].status = "completed"
    /\ Linked(last.ctid)
    /\ orders[txs[last.ctid].orderId].status =
           Target(txs[last.ctid].paymentProvider)
    /\ mail.confirm = 1

\* C16: handleWebhook changes no transaction and no order and sends nothing
\* when the payment has no externalReference, when no transaction has that
\* clientTransactionId, or when the gateway status is not approved.
C16_WebhookOnlyApproved ==
    \A x \in Ctids \cup {NULL}, gw \in GatewayStatus \cup {GatewayThrows} :
        (x = NULL \/ x \notin DOMAIN txs \/ gw # "approved") =>
            HandleMercadoPagoWebhook(DB, gw, x).db = DB

C16_Witness ==
    /\ last.op = "handleWebhook" /\ last.gw = "rejected" /\ ~last.changed
    /\ last.ctid \in DOMAIN txs
    /\ txs[last.ctid].status = "pending"

Decisive == {"approved", "pending", "in_process", "rejected", "cancelled",
             "refunded"}

\* C17 as stated: on a found, not completed transaction a gateway status of
\* pending or in_process returns {pending, updated:false} and every status
\* outside the six named ones returns {unknown, updated:false}; the store is
\* unchanged in both cases.
C17_NonDecisiveUnknown ==
    \A c \in DOMAIN txs, gw \in GatewayStatus :
        txs[c].status # "completed" =>
            LET r == VerifyAndUpdateMercadoPagoPayment(DB, gw, c)
            IN  /\ gw \in {"pending", "in_process"} =>
                       (r.res = "pending" /\ r.updated = FALSE /\ r.db = DB)
                /\ gw \notin Decisive =>
                       (r.res = "unknown" /\ r.updated = FALSE /\ r.db = DB)

\* C17 amended: a status outside the six named ones is returned as it came
\* from the gateway, and as unknown only when the gateway gave none.
C17_NonDecisive ==
    \A c \in DOMAIN txs, gw \in GatewayStatus :
        txs[c].status # "completed" =>
            LET r == VerifyAndUpdateMercadoPagoPayment(DB, gw, c)
            IN  /\ gw \in {"pending", "in_process"} =>
                       (r.res = "pending" /\ r.updated = FALSE /\ r.db = DB)
                /\ gw \notin Decisive =>
                       /\ r.res = (IF gw = NULL THEN "unknown" ELSE gw)
                       /\ r.updated = FALSE /\ r.db = DB

C17_Witness ==
    /\ last.op = "verifyAndUpdate" /\ last.gw = "charged_back"
    /\ last.res = "charged_back" /\ ~last.changed
    /\ last.ctid \in DOMAIN txs
    /\ txs[last.ctid].status = "pending"

\* C18: with the e-mail service down, updatePaymentStatus(X, completed)
\* still returns normally, with the transaction completed and the order at
\* its target status.
C18_EmailFailureSwallowed ==
    \A c \in DOMAIN txs, d \in {Undefined} \cup DataVals :
        (~mail.up /\ txs[c].status # "completed" /\ Linked(c)) =>
            LET r == UpdatePaymentStatus(DB, c, "completed", d)
            IN  /\ r.res = "ok"
                /\ r.db.txs[c].status = "completed"
                /\ r.db.orders[txs[c].orderId].status =
                       Target(txs[c].paymentProvider)
                /\ r.db.mail = mail

C18_Witness ==
    /\ last.op = "updatePaymentStatus" /\ last.res = "ok" /\ last.changed
    /\ ~mail.up
    /\ last.ctid \in DOMAIN txs
    /\ txs[last.ctid].status = "completed"
    /\ Linked(last.ctid)
    /\ orders[txs[last.ctid].orderId].status =
           Target(txs[last.ctid].paymentProvider)
    /\ mail.status = 0 /\ mail.confirm = 0

\* C19 as stated: createTransactionAndOrder for a user whose cart is empty
\* fails with BadRequest and leaves the transaction and order rows as they
\* were.
C19_EmptyCartBadRequest ==
    \A u \in Users, c \in Ctids, p \in PaymentProvider, retry \in BOOLEAN :
      \A gw \in PreferenceOutcome(p) :
        cart[u] = 0 =>
            LET r == CreateWithOrder(DB, u, c, "a1", p, Undefined, retry, gw)
            IN  /\ r.res = "BadRequest"
                /\ r.db.txs = txs /\ r.db.orders = orders

\* C19 amended: the call fails, with BadRequest when the address is the
\* caller's and with NotFound when it is not (the address is validated
\* first), and leaves the transaction and order rows as they were.
C19_EmptyCartRejected ==
    \A u \in Users, c \in Ctids, p \in PaymentProvider, retry \in BOOLEAN :
      \A gw \in PreferenceOutcome(p) :
        cart[u] = 0 =>
            LET r == CreateWithOrder(DB, u, c, "a1", p, Undefined, retry, gw)
            IN  /\ r.res = (IF OwnsAddress(u, "a1") THEN "BadRequest"
                            ELSE "NotFound")
                /\ r.db.txs = txs /\ r.db.orders = orders

C19_Witness ==
    /\ last.op = "createTransactionAndOrder" /\ last.res = "BadRequest"
    /\ ~last.changed
    /\ cart["u1"] = 0
    /\ txs = <<>> /\ orders = <<>>

\* what C20 asks of the rows after a successful MERCADOPAGO
\* createTransactionAndOrder of u1 with cart total T
HappyRows(r, c, total) ==
    /\ r.val \notin DOMAIN orders
    /\ DOMAIN r.db.orders = DOMAIN orders \cup {r.val}
    /\ \A o \in DOMAIN orders : r.db.orders[o] = orders[o]
    /\ r.db.orders[r.val].status = "pending"
    /\ r.db.orders[r.val].total = total
    /\ c \notin DOMAIN txs
    /\ DOMAIN r.db.txs = DOMAIN txs \cup {c}
    /\ \A x \in DOMAIN txs : r.db.txs[x] = txs[x]
    /\ r.db.txs[c].status = "pending"
    /\ r.db.txs[c].amount = total
    /\ r.db.txs[c].orderId = r.val

\* C20 as stated: a successful createTransactionAndOrder with MERCADOPAGO,
\* an owned address and a cart of total T creates one pending order of total
\* T and one pending transaction of amount T linked to it, returns a
\* non-empty initPoint and leaves the cart empty.
C20_HappyPathCartEmptied ==
    \A c \in Ctids, retry \in BOOLEAN, gw \in PreferenceOutcome("MERCADOPAGO") :
        cart["u1"] > 0 =>
            LET r == CreateWithOrder(DB, "u1", c, "a1", "MERCADOPAGO",
                                     Undefined, retry, gw)
            IN  r.res = "ok" =>
                    /\ HappyRows(r, c, cart["u1"])
                    /\ r.initPoint # Undefined
                    /\ r.db.cart["u1"] = 0

\* C20 amended: the initPoint returned is the one of the gateway's
\* preference (non-empty when the preference carries one), and the cart is
\* emptied unless the request names an orderId, in which case it is left
\* as it was.
C20_HappyPath ==
    \A c \in Ctids, retry \in BOOLEAN, gw \in PreferenceOutcome("MERCADOPAGO") :
        cart["u1"] > 0 =>
            LET r == CreateWithOrder(DB, "u1", c, "a1", "MERCADOPAGO",
                                     Undefined, retry, gw)
            IN  /\ (c \notin DOMAIN txs /\ gw # GatewayThrows) => r.res = "ok"
                /\ r.res = "ok" =>
                    /\ HappyRows(r, c, cart["u1"])
                    /\ gw = "ok" => r.initPoint = "init_point"
                    /\ gw = "bare" => r.initPoint = Undefined
                    /\ r.db.cart["u1"] = (IF retry THEN cart["u1"] ELSE 0)

C20_Witness ==
    /\ last.op = "createTransactionAndOrder" /\ last.res = "ok"
    /\ last.ctid \in DOMAIN txs
    /\ txs[last.ctid].paymentProvider = "MERCADOPAGO"
    /\ txs[last.ctid].status = "pending"
    /\ Linked(last.ctid)
    /\ orders[txs[last.ctid].orderId].status = "pending"
    /\ orders[txs[last.ctid].orderId].total = txs[last.ctid].amount
    /\ txs[last.ctid].amount = MaxCart
    /\ cart["u1"] = 0
    /\ steps = 1

\* C21: when the phone charge that processPhonePayment issues for an
\* existing transaction (no client-supplied result) fails, the call is
\* rejected and the transaction's status and gatewayResponseData are the same
\* as before the call.
C21_GatewayFailureKeepsState ==
    [][(last'.op = "processPhonePayment" /\ last'.res = "Error") =>
          /\ last'.ctid \in DOMAIN txs /\ last'.ctid \in DOMAIN txs'
          /\ txs'[last'.ctid].status = txs[last'.ctid].status
          /\ txs'[last'.ctid].payphoneData = txs[last'.ctid].payphoneData
      ]_vars

\* C22: when the Checkout-Preference request fails inside createTransaction
\* without orderId or inside createTransactionAndOrder, the call fails and the
\* transaction row it created stays, with status pending; for
\* createTransactionAndOrder the row is linked to the pending order the call
\* created.
C22_InitiationFailureKeepsRow ==
    \A u \in Users, c \in Ctids, retry \in BOOLEAN :
        (OwnsAddress(u, "a1") /\ cart[u] > 0 /\ c \notin DOMAIN txs) =>
            LET a == CreateWithoutOrder(DB, u, c, "a1", "MERCADOPAGO",
                                        Undefined, GatewayThrows)
                b == CreateWithOrder(DB, u, c, "a1", "MERCADOPAGO", Undefined,
                                     retry, GatewayThrows)
            IN  /\ Failed(a)
                /\ DOMAIN a.db.txs = DOMAIN txs \cup {c}
                /\ a.db.txs[c].status = "pending"
                /\ a.db.txs[c].orderId = NoOrder
                /\ a.db.orders = orders
                /\ Failed(b)
                /\ DOMAIN b.db.txs = DOMAIN txs \cup {c}
                /\ b.db.txs[c].status = "pending"
                /\ b.db.txs[c].orderId \in DOMAIN b.db.orders \ DOMAIN orders
                /\ b.db.orders[b.db.txs[c].orderId].status = "pending"

C22_Witness ==
    /\ last.op = "createTransactionAndOrder" /\ last.res = "BadRequest"
    /\ last.changed
    /\ last.ctid \in DOMAIN txs
    /\ txs[last.ctid].paymentProvider = "MERCADOPAGO"
    /\ txs[last.ctid].status = "pending"
    /\ Linked(last.ctid)
    /\ orders[txs[last.ctid].orderId].status = "pending"

\* C23: after a successful processDeposit the order has status
\* paid_pending_review and a non-null depositImageUrl, the deposit's
\* transaction has provider CASH_DEPOSIT, the orderId of that order and status
\* pending; the deposit flow moves no transaction to completed.
C23_DepositOutcome ==
    \A u \in Users, c \in Ctids, o \in {NoOrder} \cup DOMAIN orders,
       upload \in {"img", GatewayThrows} :
        LET r == ProcessCashDeposit(DB, u, "a1", c, o, upload)
        IN  /\ \A x \in DOMAIN r.db.txs :
                  r.db.txs[x].status = "completed" =>
                      x \in DOMAIN txs /\ txs[x].status = "completed"
            /\ r.res = "ok" =>
                  /\ r.val \in DOMAIN r.db.orders
                  /\ o # NoOrder => r.val = o
                  /\ o = NoOrder => r.val \notin DOMAIN orders
                  /\ r.db.orders[r.val].status = "paid_pending_review"
                  /\ r.db.orders[r.val].depositImageUrl # NULL
                  /\ c \in DOMAIN r.db.txs
                  /\ r.db.txs[c].paymentProvider = "CASH_DEPOSIT"
                  /\ r.db.txs[c].orderId = r.val
                  /\ r.db.txs[c].status = "pending"

C23_Witness ==
    /\ last.op = "processDeposit" /\ last.res = "ok"
    /\ last.ctid \in DOMAIN txs
    /\ txs[last.ctid].paymentProvider = "CASH_DEPOSIT"
    /\ txs[last.ctid].status = "pending"
    /\ Linked(last.ctid)
    /\ orders[txs[last.ctid].orderId].status = "paid_pending_review"
    /\ orders[txs[last.ctid].orderId].depositImageUrl = "img"

\* C24: if the image upload throws during processDeposit the whole call
\* fails, and the order is not moved to paid_pending_review and gets no
\* depositImageUrl: an existing order is as it was, a new order is pending
\* with a null image.
C24_UploadFailureIsHard ==
    \A u \in Users, c \in Ctids, o \in {NoOrder} \cup DOMAIN orders :
        LET done == ProcessCashDeposit(DB, u, "a1", c, o, "img")
            r == ProcessCashDeposit(DB, u, "a1", c, o, GatewayThrows)
        IN  done.res = "ok" =>
                /\ Failed(r)
                /\ \A x \in DOMAIN orders :
                      x \in DOMAIN r.db.orders /\ r.db.orders[x] = orders[x]
                /\ done.val \in DOMAIN r.db.orders
                /\ r.db.orders[done.val].status = "pending"
                /\ o = NoOrder => r.db.orders[done.val].depositImageUrl = NULL

C24_Witness ==
    /\ last.op = "processDeposit" /\ last.res = "Error" /\ last.changed
    /\ last.ctid \in DOMAIN txs
    /\ txs[last.ctid].paymentProvider = "CASH_DEPOSIT"
    /\ Linked(last.ctid)
    /\ orders[txs[last.ctid].orderId].status = "pending"
    /\ orders[txs[last.ctid].orderId].depositImageUrl = NULL

\* C25: deleteUserPendingPayment(userId, transactionId) removes the
\* transaction when it exists, belongs to userId and is pending, and removes
\* that row only; in every other case (missing, another user's, completed or
\* failed) it fails with NotFound and the store is unchanged.
C25_DeleteOnlyOwnPending ==
    \A u \in Users, id \in 1..nextTx :
        LET r == DeleteUserPendingPayment(DB, u, id)
            rows == {c \in DOMAIN txs : txs[c].id = id}
        IN  /\ Cardinality(rows) <= 1
            /\ IF \E c \in rows : txs[c].userId = u /\ txs[c].status = "pending"
               THEN /\ r.res = "ok"
                    /\ DOMAIN r.db.txs = DOMAIN txs \ rows
                    /\ \A c \in DOMAIN r.db.txs : r.db.txs[c] = txs[c]
                    /\ r.db.orders = orders /\ r.db.cart = cart
                    /\ r.db.mail = mail
               ELSE r.res = "NotFound" /\ r.db = DB

C25_Witness ==
    /\ last.op = "deleteUserPendingPayment" /\ last.res = "ok"
    /\ last.changed
    /\ nextTx = 3
    /\ Cardinality(DOMAIN txs) = 1
    /\ \E c \in DOMAIN txs : txs[c].status = "pending"

\* C26 as stated: createTransaction without orderId and without
\* paymentMethodId fails with BadRequest, creating no row, for every provider
\* other than the default one (PAYPHONE).
C26_PaymentMethodRequired ==
    \A u \in Users, c \in Ctids, p \in PaymentProvider \ {"PAYPHONE"} :
        \A gw \in GatewayOutcome(p) :
            LET r == CreateWithoutOrder(DB, u, c, "a1", p, Undefined, gw)
            IN  r.res = "BadRequest" /\ r.db = DB

\* C26 amended: the same for every provider other than PAYPHONE and
\* MERCADOPAGO; a MERCADOPAGO request needs no paymentMethodId.
C26_PaymentMethodRequiredOffGateway ==
    \A u \in Users, c \in Ctids,
       p \in PaymentProvider \ {"PAYPHONE", "MERCADOPAGO"},
       a \in {Undefined} \cup Addresses :
        \A gw \in GatewayOutcome(p) :
            LET r == CreateWithoutOrder(DB, u, c, a, p, Undefined, gw)
                m == CreateWithoutOrder(DB, "u1", c, "a1", "MERCADOPAGO",
                                        Undefined, "ok")
            IN  /\ r.res = "BadRequest" /\ r.db = DB
                /\ (cart["u1"] > 0 /\ c \notin DOMAIN txs) =>
                       m.res = "ok" /\ c \in DOMAIN m.db.txs

C26_Witness ==
    /\ last.op = "createWithoutOrder" /\ last.res = "BadRequest"
    /\ ~last.changed
    /\ cart["u1"] > 0
    /\ last.ctid \notin DOMAIN txs

\* C27: in every state reached through createTransaction with an orderId,
\* createTransactionAndOrder, regenerateForOrder and processDeposit, each
\* order has at most one transaction with status pending.
C27_OneActivePerOrder ==
    \A o \in DOMAIN orders :
        Cardinality({c \in TxOfOrder(DB, o) : txs[c].status = "pending"}) <= 1

\* C28: a transaction row keeps its id, clientTransactionId, userId, amount
\* and paymentProvider (and its addressId) from creation on, through
\* updatePaymentStatus, createOrderFromTransaction, processPhonePayment,
\* verifyAndUpdate, handleWebhook and processDeposit; only status,
\* gatewayResponseData and orderId are written after creation.
C28_ImmutableFields ==
    [][\A c \in DOMAIN txs, x \in DOMAIN txs' :
          txs'[x].id = txs[c].id =>
              /\ x = c
              /\ txs'[x].userId = txs[c].userId
              /\ txs'[x].amount = txs[c].amount
              /\ txs'[x].paymentProvider = txs[c].paymentProvider
              /\ txs'[x].addressId = txs[c].addressId
      ]_vars

C28_Witness ==
    /\ last.op = "processPhonePayment" /\ last.res = "ok" /\ last.changed
    /\ last.ctid \in DOMAIN txs
    /\ txs[last.ctid].paymentProvider = "CRYPTO"
    /\ txs[last.ctid].payphoneData = "d2"
    /\ txs[last.ctid].status = "pending"
    /\ Linked(last.ctid)
    /\ orders[txs[last.ctid].orderId].total = txs[last.ctid].amount
    /\ steps = 2

\* C29: a rate request returns the cached rate without contacting the rate
\* source while the cached entry is younger than one hour; otherwise it
\* fetches, and when the fetch fails it returns the last cached rate if there
\* is one and the static fallback rate only if no rate has ever been cached
\* (a cached rate is never dropped); the returned rate is always positive.
C29_RateDegradation ==
    /\ [](\A fetched \in FetchOutcome :
            LET r == GetUsdToArsRate(cachedRate, clock, fetched)
                some == cachedRate # NoCachedRate
                young == some /\ clock - cachedRate.timestamp < CACHE_DURATION
                failed == ~fetched.ok \/ QuotedRate(fetched) <= 0
            IN  /\ young => (r.rate = cachedRate.rate /\ ~r.contacted)
                /\ ~young => r.contacted
                /\ (~young /\ ~failed) => r.rate = QuotedRate(fetched)
                /\ (~young /\ failed /\ some) => r.rate = cachedRate.rate
                /\ (~young /\ failed /\ ~some) => r.rate = FALLBACK_RATE
                /\ r.rate > 0)
    /\ [][cachedRate # NoCachedRate => cachedRate' # NoCachedRate]_vars

C29_Witness ==
    /\ quote.contacted
    /\ quote.rate = 1300
    /\ quote.cached = cachedRate
    /\ cachedRate.rate = 1300
    /\ clock - cachedRate.timestamp >= CACHE_DURATION

\* C30: from the same store, handleWebhook with gateway status approved for
\* externalReference X and verifyAndUpdate(paymentId, X) with gateway status
\* approved end in the same transaction status, the same order status and
\* the same notifications sent, whether X is pending, failed or completed.
C30_TriggerConvergence ==
    \A x \in DOMAIN txs :
        LET w == HandleMercadoPagoWebhook(DB, "approved", x)
            v == VerifyAndUpdateMercadoPagoPayment(DB, "approved", x)
        IN  /\ w.db.txs = v.db.txs
            /\ w.db.orders = v.db.orders
            /\ w.db.mail = v.db.mail
            /\ w.db.txs[x].status = "completed"

C30_Witness ==
    /\ last.op = "handleWebhook" /\ last.gw = "approved" /\ last.changed
    /\ last.ctid \in DOMAIN txs
    /\ txs[last.ctid].status = "completed"
    /\ Linked(last.ctid)
    /\ orders[txs[last.ctid].orderId].status =
           Target(txs[last.ctid].paymentProvider)
    /\ mail.confirm = 1
    /\ nextTx = 2
    /\ steps = 3
    /\ VerifyAndUpdateMercadoPagoPayment(DB, "approved", last.ctid).res =
           "already_completed"

\* C31: a transaction with status completed has an orderId that refers to an
\* existing order; when updatePaymentStatus(X, completed) fails because X has
\* no order, X's status is left as it was.
C31_CompletedHasOrder ==
    \A c \in DOMAIN txs : txs[c].status = "completed" => Linked(c)

\* C32: verifyAndUpdate returns updated:true if and only if the stored status
\* of the transaction changed during the call; a result with updated:false
\* (status error included) leaves the transaction and its order exactly as
\* before, and updated:true is not returned for a transaction that was
\* already failed.
C32_UpdatedFlagFaithful ==
    \A c \in DOMAIN txs, gw \in GatewayStatus \cup {GatewayThrows} :
        LET r == VerifyAndUpdateMercadoPagoPayment(DB, gw, c)
        IN  /\ r.updated <=> r.db.txs[c].status # txs[c].status
            /\ ~r.updated => (r.db.txs = txs /\ r.db.orders = orders)
            /\ (txs[c].status = "failed" /\ Rejecting(gw)) => ~r.updated

\* C33: when deleteUserPendingPayment(u, T) runs concurrently with
\* updatePaymentStatus(T, completed), no execution removes T after its status
\* has become completed.
C33_DeleteSparesCompleted ==
    [][\A c \in DOMAIN txs :
          txs[c].status = "completed" => c \in DOMAIN txs']_vars

\* C34: when two regenerateForOrder calls, or a regenerateForOrder and a
\* deposit retry, for the same pending order interleave at their delete and
\* create steps, the order ends with exactly one pending transaction.
C34_ConcurrentRetriesSafe ==
    \A v, w \in Workers :
        (/\ v # w
         /\ wk[v].op \in RetryTriggers /\ wk[w].op \in RetryTriggers
         /\ wk[v].oid = wk[w].oid
         /\ wk[v].pc = "done" /\ wk[w].pc = "done")
        => Cardinality({c \in TxOfOrder(DB, wk[v].oid) :
                           txs[c].status = "pending"}) = 1

\* C35: if regenerateForOrder or the existing-order deposit retry returns an
\* error, the transactions of every order are the same as before the call;
\* the pending transactions are not deleted without a replacement.
C35_FailedRetryLosesNothing ==
    [][(/\ last'.op \in {"regenerateForOrder", "processDeposit"}
        /\ last'.res \in {"NotFound", "BadRequest", "Error"})
       => \A o \in DOMAIN orders :
             /\ {c \in DOMAIN txs' : txs'[c].orderId = o} = TxOfOrder(DB, o)
             /\ \A c \in TxOfOrder(DB, o) : txs'[c] = txs[c]
      ]_vars

\* C36: whenever createTransactionAndOrder fails before its transaction row
\* exists (the clientTransactionId is already in use, say), no new Order row
\* remains; every order created by the operation has a transaction pointing
\* at it.
C36_NoOrphanOrder ==
    [][last'.op = "createTransactionAndOrder" =>
          /\ (last'.res \in {"NotFound", "BadRequest", "Error"} /\ txs' = txs)
                => orders' = orders
          /\ \A o \in DOMAIN orders' \ DOMAIN orders :
                \E c \in DOMAIN txs' : txs'[c].orderId = o
      ]_vars

\* C37: every transaction with an orderId has the amount of that order's
\* total, also when the order was derived lazily by
\* createOrderFromTransaction or the deposit flow after the cart changed.
C37_AmountMatchesOrder ==
    \A c \in DOMAIN txs :
        Linked(c) => txs[c].amount = orders[txs[c].orderId].total

\* C38: processPhonePayment with a client-supplied gateway result, for a
\* transaction of the caller, stores the result as gatewayResponseData and
\* leaves the status as it is; if the transaction has no orderId it tries
\* createOrderFromTransaction at status pending, and a failure of that (empty
\* cart, missing address) is swallowed: the call succeeds and the transaction
\* stays without an order.  A transaction that is missing or another user's
\* gives NotFound and no state change.  The gateway is not asked.
C38_PhonePaymentSuppliedResult ==
    \A u \in Users, c \in Ctids, resp \in DataVals :
        LET r == ProcessPhonePayment(DB, u, c, resp, "d2")
            down == ProcessPhonePayment(DB, u, c, resp, GatewayThrows)
        IN  /\ r = down
            /\ IF c \in DOMAIN txs /\ txs[c].userId = u
               THEN LET derivable == /\ txs[c].addressId # NULL
                                     /\ OwnsAddress(u, txs[c].addressId)
                                     /\ cart[u] > 0
                        id == NextOrderId(DB)
                    IN  /\ r.res = "ok"
                        /\ DOMAIN r.db.txs = DOMAIN txs
                        /\ r.db.txs[c].payphoneData = resp
                        /\ r.db.txs[c].status = txs[c].status
                        /\ \A x \in DOMAIN txs \ {c} : r.db.txs[x] = txs[x]
                        /\ HasOrder(txs[c]) =>
                              /\ r.db.txs[c].orderId = txs[c].orderId
                              /\ r.db.orders = orders /\ r.db.cart = cart
                        /\ (~HasOrder(txs[c]) /\ derivable) =>
                              /\ r.db.txs[c].orderId = id
                              /\ DOMAIN r.db.orders = DOMAIN orders \cup {id}
                              /\ r.db.orders[id].status = "pending"
                        /\ (~HasOrder(txs[c]) /\ ~derivable) =>
                              /\ r.db.txs[c].orderId = NoOrder
                              /\ r.db.orders = orders /\ r.db.cart = cart
               ELSE r.res = "NotFound" /\ r.db = DB

C38_Witness ==
    /\ last.op = "processPhonePayment" /\ last.res = "ok" /\ last.changed
    /\ last.ctid \in DOMAIN txs
    /\ txs[last.ctid].payphoneData = "d1"
    /\ txs[last.ctid].orderId = NoOrder
    /\ txs[last.ctid].userId = "u1"
    /\ cart["u1"] = 0
====
